---------------------------- MODULE Spec2Model ----------------------------
(***************************************************************************)
(* george2sepa: conversion of semicolon-separated payment rows into SEPA   *)
(* pain.008 (direct debit) and pain.001 (credit transfer) documents.       *)
(*                                                                         *)
(* Strings that the program inspects character by character (dates,        *)
(* amounts, the company name) are sequences of one-character strings.      *)
(* Strings that the program only copies (names, IBANs, fixed codes) are    *)
(* one-element sequences holding the whole text.  Python's None is the     *)
(* one-element sequence None below, which no text can equal.               *)
(***************************************************************************)
EXTENDS Integers, Sequences, FiniteSets, TLC

VARIABLES
    ui,            \* the form: entry path, mode, company name, flags, paths
    csvFile,       \* the input file: header and data lines
    outFile,       \* the file at the output path
    pc,            \* position of the running handler
    rows,          \* result of read_csv
    doc,           \* the element tree being built
    idx,           \* the row the transaction loop is at
    total_count,   \* generate_pain00x: total_count
    total_amount,  \* generate_pain00x: total_amount
    log,           \* messages logged by the handler
    uuid,          \* number of uuid4() tokens drawn
    date_str,      \* convert_date on its own: the argument
    date_res,      \* convert_date(date_str)
    date_res2,     \* convert_date(convert_date(date_str))
    betrag_str,    \* the amount parser on its own: the Betrag text of a row
    betrag_val,    \* amt_val, the parsed amount of that row
    betrag_res     \* the InstdAmt text written for that row

vars == <<ui, csvFile, outFile, pc, rows, doc, idx, total_count, total_amount,
          log, uuid, date_str, date_res, date_res2,
          betrag_str, betrag_val, betrag_res>>

-----------------------------------------------------------------------------
(* Bounds of the model *)

MaxRows == 2
MaxDateLen == 5
MaxAmountLen == 5

-----------------------------------------------------------------------------
(* Python values *)

None == <<"None">>
Unset == <<"unset">>

Digits == {"0", "1", "2", "3", "4", "5", "6", "7", "8", "9"}

DigitVal(c) ==
    CASE c = "0" -> 0 [] c = "1" -> 1 [] c = "2" -> 2 [] c = "3" -> 3
      [] c = "4" -> 4 [] c = "5" -> 5 [] c = "6" -> 6 [] c = "7" -> 7
      [] c = "8" -> 8 [] c = "9" -> 9

DigitChar(n) ==
    CASE n = 0 -> "0" [] n = 1 -> "1" [] n = 2 -> "2" [] n = 3 -> "3"
      [] n = 4 -> "4" [] n = 5 -> "5" [] n = 6 -> "6" [] n = 7 -> "7"
      [] n = 8 -> "8" [] n = 9 -> "9"

Range(s) == {s[k] : k \in DOMAIN s}

\* bool(x) of a str or None: empty and None are false
Truthy(s) == s # None /\ s # <<>>

RECURSIVE LStrip(_)
LStrip(s) == IF s # <<>> /\ Head(s) = " " THEN LStrip(Tail(s)) ELSE s

RECURSIVE RStrip(_)
RStrip(s) ==
    IF s # <<>> /\ s[Len(s)] = " " THEN RStrip(SubSeq(s, 1, Len(s) - 1)) ELSE s

\* str.strip()
Strip(s) == RStrip(LStrip(s))

RECURSIVE SplitAcc(_, _, _, _)
SplitAcc(s, sep, cur, acc) ==
    IF s = <<>> THEN Append(acc, cur)
    ELSE IF Head(s) = sep THEN SplitAcc(Tail(s), sep, <<>>, Append(acc, cur))
    ELSE SplitAcc(Tail(s), sep, Append(cur, Head(s)), acc)

\* str.split(sep): the parts between the occurrences of sep, empty parts kept
Split(s, sep) == SplitAcc(s, sep, <<>>, <<>>)

\* str.replace(old, new) for one-character old and new
Replace(s, old, new) == [k \in DOMAIN s |-> IF s[k] = old THEN new ELSE s[k]]

AllDigits(s) == s # <<>> /\ \A k \in DOMAIN s : s[k] \in Digits

RECURSIVE DigitsVal(_)
DigitsVal(s) ==
    IF s = <<>> THEN 0 ELSE 10 * DigitsVal(SubSeq(s, 1, Len(s) - 1)) + DigitVal(s[Len(s)])

Unsigned(s) == IF s # <<>> /\ Head(s) \in {"-", "+"} THEN Tail(s) ELSE s

\* int(s) succeeds: surrounding blanks, an optional sign, then digits
IsInt(s) == AllDigits(Unsigned(Strip(s)))

\* int(s)
IntVal(s) ==
    LET t == Strip(s)
    IN  IF t # <<>> /\ Head(t) = "-" THEN 0 - DigitsVal(Tail(t)) ELSE DigitsVal(Unsigned(t))

RECURSIVE NatStr(_)
NatStr(n) == IF n < 10 THEN <<DigitChar(n)>> ELSE Append(NatStr(n \div 10), DigitChar(n % 10))

\* str(n)
IntStr(n) == IF n < 0 THEN <<"-">> \o NatStr(0 - n) ELSE NatStr(n)

RECURSIVE ZeroFill(_, _)
ZeroFill(s, w) == IF Len(s) >= w THEN s ELSE ZeroFill(<<"0">> \o s, w)

\* f"{n:0wd}": zero padding to width w, the sign counted in the width
ZeroPad(n, w) ==
    IF n < 0 THEN <<"-">> \o ZeroFill(NatStr(0 - n), w - 1) ELSE ZeroFill(NatStr(n), w)

-----------------------------------------------------------------------------
(* convert_date *)

DefaultDate == <<"2", "0", "2", "5", "-", "0", "1", "-", "0", "1">>

Separators == <<".", "/", "-">>

\* one pass of the loop body: the split at sep gives three integer parts
SepMatches(s, sep) ==
    LET parts == Split(s, sep)
    IN  Len(parts) = 3 /\ IsInt(parts[1]) /\ IsInt(parts[2]) /\ IsInt(parts[3])

IsoOf(s, sep) ==
    LET parts == Split(s, sep)
        dd == IntVal(parts[1])
        mm == IntVal(parts[2])
        yyyy == IntVal(parts[3])
    IN  ZeroPad(yyyy, 4) \o <<"-">> \o ZeroPad(mm, 2) \o <<"-">> \o ZeroPad(dd, 2)

\* a loop that looks at the first separator only
TrySeparators_FirstOnly(s, k) ==
    IF SepMatches(s, Separators[1]) THEN IsoOf(s, Separators[1]) ELSE s

RECURSIVE TrySeparators(_, _)
TrySeparators(s, k) ==
    IF k > Len(Separators) THEN s
    ELSE IF SepMatches(s, Separators[k]) THEN IsoOf(s, Separators[k])
    ELSE TrySeparators(s, k + 1)

\* convert_date falling back to the default date, not to its argument
convert_date_DefaultOnFailure(s) ==
    IF ~Truthy(s) \/ TrySeparators(s, 1) = s THEN DefaultDate ELSE TrySeparators(s, 1)

convert_date(s) == IF ~Truthy(s) THEN DefaultDate ELSE TrySeparators(s, 1)

RECURSIVE SepaTool_TrySeparators(_, _)
SepaTool_TrySeparators(s, k) ==
    IF k > Len(Separators) THEN s
    ELSE IF SepMatches(s, Separators[k]) THEN IsoOf(s, Separators[k])
    ELSE SepaTool_TrySeparators(s, k + 1)

\* a copy of convert_date that does not know the separator '/'
SepaTool_convert_date_NoSlash(s) ==
    IF ~Truthy(s) THEN DefaultDate
    ELSE IF SepMatches(s, ".") THEN IsoOf(s, ".")
    ELSE IF SepMatches(s, "-") THEN IsoOf(s, "-")
    ELSE s

\* SepaTool.convert_date, the copy in sepatool.py
SepaTool_convert_date(s) == IF ~Truthy(s) THEN DefaultDate ELSE SepaTool_TrySeparators(s, 1)

-----------------------------------------------------------------------------
(* Amounts.  A finite float is held exactly, as a sign and a magnitude in   *)
(* thousandths: the amounts of the model carry at most three decimals and  *)
(* an even last digit, so that no sum lies halfway between two cents and   *)
(* binary rounding cannot show.  float() also reads the infinities and     *)
(* not-a-number; exponents and digit-group underscores are not in the      *)
(* alphabet of the model.                                                  *)

Fin(neg, m) == [kind |-> "fin", neg |-> neg, m |-> m]
Inf(neg) == [kind |-> "inf", neg |-> neg, m |-> 0]
NaN == [kind |-> "nan", neg |-> FALSE, m |-> 0]

\* 0.0, the start of total_amount and the value of the except branch
Zero == Fin(FALSE, 0)

\* the signed number of thousandths of a finite float
Signed(x) == IF x.neg THEN 0 - x.m ELSE x.m

\* str.lower() on the letters float() looks at
LowerChar(c) ==
    CASE c = "I" -> "i" [] c = "N" -> "n" [] c = "F" -> "f" [] c = "A" -> "a"
      [] c = "T" -> "t" [] c = "Y" -> "y" [] OTHER -> c

Lower(s) == [k \in DOMAIN s |-> LowerChar(s[k])]

\* the spellings float() reads as infinity and as not-a-number, in any case
InfWords == {<<"i", "n", "f">>, <<"i", "n", "f", "i", "n", "i", "t", "y">>}
NanWord == <<"n", "a", "n">>

DigitsOrEmpty(s) == \A k \in DOMAIN s : s[k] \in Digits

\* float(s) succeeds: blanks, an optional sign, then inf, nan or digits with
\* at most one point
IsFloat(s) ==
    LET u == Unsigned(Strip(s))
        parts == Split(u, ".")
    IN  \/ Lower(u) \in InfWords \cup {NanWord}
        \/ Len(parts) = 1 /\ AllDigits(parts[1])
        \/ /\ Len(parts) = 2
           /\ DigitsOrEmpty(parts[1]) /\ DigitsOrEmpty(parts[2])
           /\ parts[1] \o parts[2] # <<>>

\* the first three decimals of a fraction, as a number of thousandths
FracMilli(f) == DigitsVal(SubSeq(f \o <<"0", "0", "0">>, 1, 3))

\* float(s)
FloatVal(s) ==
    LET t == Strip(s)
        neg == t # <<>> /\ Head(t) = "-"
        u == Unsigned(t)
        parts == Split(u, ".")
        whole == IF parts[1] = <<>> THEN 0 ELSE DigitsVal(parts[1])
        frac == IF Len(parts) = 2 THEN FracMilli(parts[2]) ELSE 0
    IN  IF Lower(u) = NanWord THEN NaN
        ELSE IF Lower(u) \in InfWords THEN Inf(neg)
        ELSE Fin(neg, 1000 * whole + frac)

\* the try/except around float(): any failure gives 0.0
parse_amount(amount_str) == IF IsFloat(amount_str) THEN FloatVal(amount_str) ELSE Zero

\* total_amount += amt_val: the sum of two floats
FAdd(a, b) ==
    IF a.kind = "nan" \/ b.kind = "nan" THEN NaN
    ELSE IF a.kind = "inf" /\ b.kind = "inf" THEN (IF a.neg = b.neg THEN a ELSE NaN)
    ELSE IF a.kind = "inf" THEN a
    ELSE IF b.kind = "inf" THEN b
    ELSE LET t == Signed(a) + Signed(b)
         IN  IF t = 0 THEN Fin(a.neg /\ b.neg, 0)
             ELSE IF t < 0 THEN Fin(TRUE, 0 - t) ELSE Fin(FALSE, t)

\* the value of a .2f text, in cents: round to nearest, the exact half to even
RoundCents(a) ==
    LET c == a \div 10
        r == a % 10
    IN  IF r > 5 \/ (r = 5 /\ c % 2 = 1) THEN c + 1 ELSE c

\* f"{x:.2f}" of the float x
Format2f(x) ==
    LET c == RoundCents(x.m)
        body == CASE x.kind = "nan" -> NanWord
                  [] x.kind = "inf" -> <<"i", "n", "f">>
                  [] OTHER -> NatStr(c \div 100) \o <<".">> \o ZeroFill(NatStr(c % 100), 2)
    IN  IF x.neg THEN <<"-">> \o body ELSE body

-----------------------------------------------------------------------------
(* read_csv: csv.DictReader with delimiter ';' *)

ColumnAt(header, c) == CHOOSE p \in DOMAIN header : header[p] = c

\* one dict of the reader: a field the line does not reach is None (restval);
\* fields beyond the header go under the key None, which no lookup reads
MakeRow(header, line) ==
    [c \in Range(header) |->
        IF ColumnAt(header, c) <= Len(line) THEN line[ColumnAt(header, c)] ELSE None]

NonBlank(line) == line # <<>>

\* read_csv making a row of every line, blank ones too
read_csv_KeepBlank(f) == [k \in 1..Len(f.lines) |-> MakeRow(f.header, f.lines[k])]

\* list(reader): the first line is the header, blank lines are skipped
read_csv(f) ==
    LET data == SelectSeq(f.lines, NonBlank)
    IN  [k \in 1..Len(data) |-> MakeRow(f.header, data[k])]

\* dict.get(key, default)
Get(row, key, default) == IF key \in DOMAIN row THEN row[key] ELSE default

-----------------------------------------------------------------------------
(* xml.etree.ElementTree *)

\* ET.SubElement(parent, tag) with its text and children
E(tag, text, kids) == [tag |-> tag, text |-> text, kids |-> kids]

Leaf(tag, text) == E(tag, text, <<>>)

Box(tag, kids) == E(tag, None, kids)

\* elm.text = text, for the child elm of the given tag
SetText(kids, tag, text) ==
    [k \in DOMAIN kids |-> IF kids[k].tag = tag THEN [kids[k] EXCEPT !.text = text] ELSE kids[k]]

Children(kids, tag) == SelectSeq(kids, LAMBDA e : e.tag = tag)

HasChild(kids, tag) == \E k \in DOMAIN kids : kids[k].tag = tag

Child(kids, tag) == kids[CHOOSE k \in DOMAIN kids : kids[k].tag = tag]

Tags(kids) == [k \in DOMAIN kids |-> kids[k].tag]

NoDoc == [ns |-> "", initn |-> "", GrpHdr |-> <<>>, PmtInf |-> <<>>]

\* f"{prefix}{uuid.uuid4()}": the k-th token drawn
\* a token generator that gives the same value at every draw
Token_Repeated(prefix, k) == <<prefix, "uuid4">> \o NatStr(0)

Token(prefix, k) == <<prefix, "uuid4">> \o NatStr(k)

-----------------------------------------------------------------------------
(* sepa_converter.py: the builders *)

\* generate_pain008: <GrpHdr>
\* <GrpHdr> with BtchBookg whatever the flag
pain008_GrpHdr_AlwaysBatch(company_name, batch_booking, u) ==
    <<Leaf("MsgId", Token("MSG-", u + 1)),
      Leaf("CreDtTm", <<"now">>),
      Leaf("NbOfTxs", None),
      Leaf("CtrlSum", None),
      Leaf("Grpg", <<"GRPD">>),
      Box("InitgPty", <<Leaf("Nm", company_name)>>),
      Leaf("BtchBookg", <<"true">>)>>

pain008_GrpHdr(company_name, batch_booking, u) ==
    <<Leaf("MsgId", Token("MSG-", u + 1)),
      Leaf("CreDtTm", <<"now">>),
      Leaf("NbOfTxs", None),
      Leaf("CtrlSum", None),
      Leaf("Grpg", <<"GRPD">>),
      Box("InitgPty", <<Leaf("Nm", company_name)>>)>>
    \o (IF batch_booking THEN <<Leaf("BtchBookg", <<"true">>)>> ELSE <<>>)

\* <PmtInf> with the collection date taken from the last row
pain008_PmtInf_LastRow(rws, company_name, sequence_type, u) ==
    <<Leaf("PmtInfId", Token("PMT-", u + 2)),
      Leaf("PmtMtd", <<"DD">>),
      Leaf("NbOfTxs", None),
      Leaf("CtrlSum", None),
      Box("PmtTpInf", <<Box("SvcLvl", <<Leaf("Cd", <<"SEPA">>)>>),
                        Box("LclInstrm", <<Leaf("Cd", <<"CORE">>)>>),
                        Leaf("SeqTp", sequence_type)>>),
      Leaf("ReqdColltnDt", convert_date(Get(rws[Len(rws)], "Faelligkeitsdatum", DefaultDate))),
      Box("Cdtr", <<Leaf("Nm", company_name)>>),
      Box("CdtrAcct", <<Box("Id", <<Leaf("IBAN", Get(rws[1], "Auftraggeber-IBAN", <<>>))>>)>>),
      Box("CdtrAgt", <<Box("FinInstnId", <<>>)>>),
      Leaf("ChrgBr", <<"SLEV">>),
      Box("CdtrSchmeId",
          <<Box("Id", <<Box("PrvtId", <<Box("Othr",
              <<Leaf("Id", Get(rws[1], "Creditor-ID", <<"DE99ZZZ09999999999">>)),
                Box("SchmeNm", <<Leaf("Prtry", <<"SEPA">>)>>)>>)>>)>>)>>)>>

\* generate_pain008: <PmtInf> up to the transactions, from the first row
pain008_PmtInf(rws, company_name, sequence_type, u) ==
    <<Leaf("PmtInfId", Token("PMT-", u + 2)),
      Leaf("PmtMtd", <<"DD">>),
      Leaf("NbOfTxs", None),
      Leaf("CtrlSum", None),
      Box("PmtTpInf", <<Box("SvcLvl", <<Leaf("Cd", <<"SEPA">>)>>),
                        Box("LclInstrm", <<Leaf("Cd", <<"CORE">>)>>),
                        Leaf("SeqTp", sequence_type)>>),
      Leaf("ReqdColltnDt", convert_date(Get(rws[1], "Faelligkeitsdatum", DefaultDate))),
      Box("Cdtr", <<Leaf("Nm", company_name)>>),
      Box("CdtrAcct", <<Box("Id", <<Leaf("IBAN", Get(rws[1], "Auftraggeber-IBAN", <<>>))>>)>>),
      Box("CdtrAgt", <<Box("FinInstnId", <<>>)>>),
      Leaf("ChrgBr", <<"SLEV">>),
      Box("CdtrSchmeId",
          <<Box("Id", <<Box("PrvtId", <<Box("Othr",
              <<Leaf("Id", Get(rws[1], "Creditor-ID", <<"DE99ZZZ09999999999">>)),
                Box("SchmeNm", <<Leaf("Prtry", <<"SEPA">>)>>)>>)>>)>>)>>)>>

\* generate_pain008: one <DrctDbtTxInf> of the loop, for a row whose amount is a string
pain008_Tx(row, u) ==
    LET amt_val == parse_amount(Replace(Get(row, "Betrag", <<"0">>), ",", "."))
    IN  Box("DrctDbtTxInf",
          <<Box("PmtId", <<Leaf("EndToEndId", Token("E2E-", u + 1))>>),
            Leaf("InstdAmt", Format2f(amt_val)),
            Box("DrctDbtTx", <<Box("MndtRltdInf",
                <<Leaf("MndtId", Get(row, "Mandatsreferenz", <<"Mandat001">>)),
                  Leaf("DtOfSgntr", convert_date(Get(row, "Mandatsaustellungsdatum", DefaultDate))),
                  Leaf("AmdmntInd", <<"false">>)>>)>>),
            Box("DbtrAgt", <<Box("FinInstnId", <<>>)>>),
            Box("Dbtr", <<Leaf("Nm", Get(row, "Zahlungspflichtiger-Name", <<>>))>>),
            Box("DbtrAcct", <<Box("Id", <<Leaf("IBAN", Get(row, "Zahlungspflichtiger-IBAN", <<>>))>>)>>),
            Box("RmtInf", <<Leaf("Ustrd", Get(row, "Verwendungszweck", <<>>))>>)>>)

\* the counters written into <GrpHdr> only
pain008_Stamp_GrpHdrOnly(d, count, amount) ==
    [d EXCEPT
       !.GrpHdr = SetText(SetText(@, "NbOfTxs", IntStr(count)), "CtrlSum", Format2f(amount))]

\* generate_pain008: the counters written into <GrpHdr> and <PmtInf> after the loop
pain008_Stamp(d, count, amount) ==
    [d EXCEPT
       !.GrpHdr = SetText(SetText(@, "NbOfTxs", IntStr(count)), "CtrlSum", Format2f(amount)),
       !.PmtInf = SetText(SetText(@, "NbOfTxs", IntStr(count)), "CtrlSum", Format2f(amount))]

\* generate_pain001: <GrpHdr>
pain001_GrpHdr(company_name, batch_booking, u) ==
    <<Leaf("MsgId", Token("MSG-", u + 1)),
      Leaf("CreDtTm", <<"now">>),
      Leaf("NbOfTxs", None),
      Leaf("CtrlSum", None),
      Leaf("Grpg", <<"GRPD">>),
      Box("InitgPty", <<Leaf("Nm", company_name)>>)>>
    \o (IF batch_booking THEN <<Leaf("BtchBookg", <<"true">>)>> ELSE <<>>)

\* generate_pain001: <PmtInf> up to the transactions, from the first row
pain001_PmtInf(rws, company_name, u) ==
    <<Leaf("PmtInfId", Token("PMT-", u + 2)),
      Leaf("PmtMtd", <<"TRF">>),
      Leaf("NbOfTxs", None),
      Leaf("CtrlSum", None),
      Box("PmtTpInf", <<Box("SvcLvl", <<Leaf("Cd", <<"SEPA">>)>>)>>),
      Leaf("ReqdExctnDt", convert_date(Get(rws[1], "Durchfuehrungsdatum", DefaultDate))),
      Box("Dbtr", <<Leaf("Nm", company_name)>>),
      Box("DbtrAcct", <<Box("Id", <<Leaf("IBAN", Get(rws[1], "Auftraggeber-IBAN", <<>>))>>)>>),
      Box("DbtrAgt", <<Box("FinInstnId",
          IF Truthy(Get(rws[1], "Auftraggeber-BIC", <<>>))
          THEN <<Leaf("BIC", Get(rws[1], "Auftraggeber-BIC", <<>>))>> ELSE <<>>)>>),
      Leaf("ChrgBr", <<"SLEV">>)>>

\* <CdtTrfTxInf> with a BIC for every field that is not None, empty or not
pain001_Tx_BicUnlessNone(row, u) ==
    LET amt_val == parse_amount(Replace(Get(row, "Betrag", <<"0">>), ",", "."))
        emp_bic == Get(row, "Empfaenger-BIC", <<>>)
    IN  Box("CdtTrfTxInf",
          <<Box("PmtId", <<Leaf("EndToEndId", Token("E2E-", u + 1))>>),
            Box("Amt", <<Leaf("InstdAmt", Format2f(amt_val))>>),
            Box("CdtrAgt", <<Box("FinInstnId",
                IF emp_bic # None THEN <<Leaf("BIC", emp_bic)>> ELSE <<>>)>>),
            Box("Cdtr", <<Leaf("Nm", Get(row, "Empfaenger-Name", <<>>))>>),
            Box("CdtrAcct", <<Box("Id", <<Leaf("IBAN", Get(row, "Empfaenger-IBAN", <<>>))>>)>>),
            Box("RmtInf", <<Leaf("Ustrd", Get(row, "Verwendungszweck", <<>>))>>)>>)

\* generate_pain001: one <CdtTrfTxInf> of the loop, for a row whose amount is a string
pain001_Tx(row, u) ==
    LET amt_val == parse_amount(Replace(Get(row, "Betrag", <<"0">>), ",", "."))
        emp_bic == Get(row, "Empfaenger-BIC", <<>>)
    IN  Box("CdtTrfTxInf",
          <<Box("PmtId", <<Leaf("EndToEndId", Token("E2E-", u + 1))>>),
            Box("Amt", <<Leaf("InstdAmt", Format2f(amt_val))>>),
            Box("CdtrAgt", <<Box("FinInstnId",
                IF Truthy(emp_bic) THEN <<Leaf("BIC", emp_bic)>> ELSE <<>>)>>),
            Box("Cdtr", <<Leaf("Nm", Get(row, "Empfaenger-Name", <<>>))>>),
            Box("CdtrAcct", <<Box("Id", <<Leaf("IBAN", Get(row, "Empfaenger-IBAN", <<>>))>>)>>),
            Box("RmtInf", <<Leaf("Ustrd", Get(row, "Verwendungszweck", <<>>))>>)>>)

\* generate_pain001: the counters written into <GrpHdr> and <PmtInf> after the loop
pain001_Stamp(d, count, amount) ==
    [d EXCEPT
       !.GrpHdr = SetText(SetText(@, "NbOfTxs", IntStr(count)), "CtrlSum", Format2f(amount)),
       !.PmtInf = SetText(SetText(@, "NbOfTxs", IntStr(count)), "CtrlSum", Format2f(amount))]

-----------------------------------------------------------------------------
(* sepatool.py: SepaTool's own copies of the builders *)

\* SepaTool.generate_pain008: <GrpHdr>
SepaTool_pain008_GrpHdr(company_name, batch_booking, u) ==
    <<Leaf("MsgId", Token("MSG-", u + 1)),
      Leaf("CreDtTm", <<"now">>),
      Leaf("NbOfTxs", None),
      Leaf("CtrlSum", None),
      Leaf("Grpg", <<"GRPD">>),
      Box("InitgPty", <<Leaf("Nm", company_name)>>)>>
    \o (IF batch_booking THEN <<Leaf("BtchBookg", <<"true">>)>> ELSE <<>>)

\* SepaTool.generate_pain008: <PmtInf> up to the transactions, from the first row
SepaTool_pain008_PmtInf(rws, company_name, sequence_type, u) ==
    <<Leaf("PmtInfId", Token("PMT-", u + 2)),
      Leaf("PmtMtd", <<"DD">>),
      Leaf("NbOfTxs", None),
      Leaf("CtrlSum", None),
      Box("PmtTpInf", <<Box("SvcLvl", <<Leaf("Cd", <<"SEPA">>)>>),
                        Box("LclInstrm", <<Leaf("Cd", <<"CORE">>)>>),
                        Leaf("SeqTp", sequence_type)>>),
      Leaf("ReqdColltnDt", SepaTool_convert_date(Get(rws[1], "Faelligkeitsdatum", DefaultDate))),
      Box("Cdtr", <<Leaf("Nm", company_name)>>),
      Box("CdtrAcct", <<Box("Id", <<Leaf("IBAN", Get(rws[1], "Auftraggeber-IBAN", <<>>))>>)>>),
      Box("CdtrAgt", <<Box("FinInstnId", <<>>)>>),
      Leaf("ChrgBr", <<"SLEV">>),
      Box("CdtrSchmeId",
          <<Box("Id", <<Box("PrvtId", <<Box("Othr",
              <<Leaf("Id", Get(rws[1], "Creditor-ID", <<"DE99ZZZ09999999999">>)),
                Box("SchmeNm", <<Leaf("Prtry", <<"SEPA">>)>>)>>)>>)>>)>>)>>

\* SepaTool.generate_pain008: one <DrctDbtTxInf> of the loop, for a row whose amount is a string
SepaTool_pain008_Tx(row, u) ==
    LET amt_val == parse_amount(Replace(Get(row, "Betrag", <<"0">>), ",", "."))
    IN  Box("DrctDbtTxInf",
          <<Box("PmtId", <<Leaf("EndToEndId", Token("E2E-", u + 1))>>),
            Leaf("InstdAmt", Format2f(amt_val)),
            Box("DrctDbtTx", <<Box("MndtRltdInf",
                <<Leaf("MndtId", Get(row, "Mandatsreferenz", <<"Mandat001">>)),
                  Leaf("DtOfSgntr", SepaTool_convert_date(Get(row, "Mandatsaustellungsdatum", DefaultDate))),
                  Leaf("AmdmntInd", <<"false">>)>>)>>),
            Box("DbtrAgt", <<Box("FinInstnId", <<>>)>>),
            Box("Dbtr", <<Leaf("Nm", Get(row, "Zahlungspflichtiger-Name", <<>>))>>),
            Box("DbtrAcct", <<Box("Id", <<Leaf("IBAN", Get(row, "Zahlungspflichtiger-IBAN", <<>>))>>)>>),
            Box("RmtInf", <<Leaf("Ustrd", Get(row, "Verwendungszweck", <<>>))>>)>>)

\* SepaTool.generate_pain008: the counters written into <GrpHdr> and <PmtInf> after the loop
SepaTool_pain008_Stamp(d, count, amount) ==
    [d EXCEPT
       !.GrpHdr = SetText(SetText(@, "NbOfTxs", IntStr(count)), "CtrlSum", Format2f(amount)),
       !.PmtInf = SetText(SetText(@, "NbOfTxs", IntStr(count)), "CtrlSum", Format2f(amount))]

\* SepaTool.generate_pain001: <GrpHdr>
SepaTool_pain001_GrpHdr(company_name, batch_booking, u) ==
    <<Leaf("MsgId", Token("MSG-", u + 1)),
      Leaf("CreDtTm", <<"now">>),
      Leaf("NbOfTxs", None),
      Leaf("CtrlSum", None),
      Leaf("Grpg", <<"GRPD">>),
      Box("InitgPty", <<Leaf("Nm", company_name)>>)>>
    \o (IF batch_booking THEN <<Leaf("BtchBookg", <<"true">>)>> ELSE <<>>)

\* SepaTool.generate_pain001: <PmtInf> up to the transactions, from the first row
SepaTool_pain001_PmtInf(rws, company_name, u) ==
    <<Leaf("PmtInfId", Token("PMT-", u + 2)),
      Leaf("PmtMtd", <<"TRF">>),
      Leaf("NbOfTxs", None),
      Leaf("CtrlSum", None),
      Box("PmtTpInf", <<Box("SvcLvl", <<Leaf("Cd", <<"SEPA">>)>>)>>),
      Leaf("ReqdExctnDt", SepaTool_convert_date(Get(rws[1], "Durchfuehrungsdatum", DefaultDate))),
      Box("Dbtr", <<Leaf("Nm", company_name)>>),
      Box("DbtrAcct", <<Box("Id", <<Leaf("IBAN", Get(rws[1], "Auftraggeber-IBAN", <<>>))>>)>>),
      Box("DbtrAgt", <<Box("FinInstnId",
          IF Truthy(Get(rws[1], "Auftraggeber-BIC", <<>>))
          THEN <<Leaf("BIC", Get(rws[1], "Auftraggeber-BIC", <<>>))>> ELSE <<>>)>>),
      Leaf("ChrgBr", <<"SLEV">>)>>

\* SepaTool.generate_pain001: one <CdtTrfTxInf> of the loop, for a row whose amount is a string
SepaTool_pain001_Tx(row, u) ==
    LET amt_val == parse_amount(Replace(Get(row, "Betrag", <<"0">>), ",", "."))
        emp_bic == Get(row, "Empfaenger-BIC", <<>>)
    IN  Box("CdtTrfTxInf",
          <<Box("PmtId", <<Leaf("EndToEndId", Token("E2E-", u + 1))>>),
            Box("Amt", <<Leaf("InstdAmt", Format2f(amt_val))>>),
            Box("CdtrAgt", <<Box("FinInstnId",
                IF Truthy(emp_bic) THEN <<Leaf("BIC", emp_bic)>> ELSE <<>>)>>),
            Box("Cdtr", <<Leaf("Nm", Get(row, "Empfaenger-Name", <<>>))>>),
            Box("CdtrAcct", <<Box("Id", <<Leaf("IBAN", Get(row, "Empfaenger-IBAN", <<>>))>>)>>),
            Box("RmtInf", <<Leaf("Ustrd", Get(row, "Verwendungszweck", <<>>))>>)>>)

\* SepaTool.generate_pain001: the counters written into <GrpHdr> and <PmtInf> after the loop
SepaTool_pain001_Stamp(d, count, amount) ==
    [d EXCEPT
       !.GrpHdr = SetText(SetText(@, "NbOfTxs", IntStr(count)), "CtrlSum", Format2f(amount)),
       !.PmtInf = SetText(SetText(@, "NbOfTxs", IntStr(count)), "CtrlSum", Format2f(amount))]

-----------------------------------------------------------------------------
(* The inputs of a run *)

Apps == {"sepa_gui", "sepatool"}
Modes == {"lastschrift", "ueberweisung"}

FullHeader(mode) ==
    IF mode = "lastschrift"
    THEN <<"Zahlungspflichtiger-Name", "Zahlungspflichtiger-IBAN", "Betrag",
           "Verwendungszweck", "Faelligkeitsdatum", "Auftraggeber-IBAN",
           "Creditor-ID", "Mandatsreferenz", "Mandatsaustellungsdatum">>
    ELSE <<"Empfaenger-Name", "Empfaenger-IBAN", "Betrag",
           "Verwendungszweck", "Durchfuehrungsdatum", "Auftraggeber-IBAN",
           "Empfaenger-BIC", "Auftraggeber-BIC">>

\* a header with all columns, one without the date and the optional columns,
\* one without the amount
HeaderLens(mode) == {2, 4, Len(FullHeader(mode))}

\* lines of the file, fields in the order of FullHeader; a ninth field is
\* past the credit-transfer header
LineA == <<<<"Alice">>, <<"DE01">>, <<"1", "0", ",", "0", "0">>, <<"Inv1">>,
           <<"3", "1", ".", "0", "1", ".", "2", "0", "2", "5">>, <<"DE99">>, <<"F7A">>, <<"F8A">>,
           <<"0", "1", "/", "0", "2", "/", "2", "0", "2", "4">>>>
LineB == <<<<"Bob">>, <<"DE02">>, <<"2", "0", ",", "0", "0">>, <<"Inv2">>,
           <<>>, <<"DE98">>, <<>>, <<>>, <<>>>>
LineC == <<<<"Carol">>, <<"DE03">>, <<"0", ".", "0", "0", "4">>, <<"Inv3">>,
           <<"2", "0", "2", "5", "-", "0", "1", "-", "3", "1">>, <<"DE97">>, <<"F7C">>>>
LineD == <<<<"Dave">>, <<"DE04">>, <<"1", "x">>, <<"Inv4">>,
           <<"1", ".", "x", ".", "3">>, <<"DE96">>, <<"F7D">>, <<"F8D">>,
           <<"x">>>>
LineE == <<<<"Eve">>>>
LineF == <<>>
LineG == <<<<"Gus">>, <<"DE07">>, <<>>, <<"Inv7">>>>
LineH == <<<<"Hal">>, <<"DE08">>, <<"-", "5", ",", "0", "0">>>>

Lines == {LineA, LineB, LineC, LineD, LineE, LineF, LineG, LineH}

LineSeqs == UNION {[1..n -> Lines] : n \in 0..MaxRows}

EmptyFile == [header |-> <<>>, lines |-> <<>>]

Files(mode) ==
    {EmptyFile} \cup
    {[header |-> SubSeq(FullHeader(mode), 1, h), lines |-> ls] :
        h \in HeaderLens(mode), ls \in LineSeqs}

CompanyNames == {<<" ", "A", "c", " ">>, <<" ">>}

Absent == [kind |-> "absent", doc |-> NoDoc]
Old == [kind |-> "old", doc |-> NoDoc]
Partial == [kind |-> "partial", doc |-> NoDoc]
Written(d) == [kind |-> "document", doc |-> d]

Form(app, mode, name, batch, isfile, outok) ==
    [app |-> app, mode |-> mode, company_name_var |-> name,
     seqtype_var |-> <<"RCUR">>, batch_var |-> batch,
     csv_isfile |-> isfile, out_ok |-> outok]

Start ==
    /\ pc = "idle"
    /\ rows = <<>>
    /\ doc = NoDoc
    /\ idx = 0
    /\ total_count = 0
    /\ total_amount = Zero
    /\ log = <<>>
    /\ uuid = 0

Init ==
    /\ Start
    /\ outFile \in {Absent, Old}
    /\ \/ /\ ui \in {Form(a, m, n, b, TRUE, TRUE) :
                       a \in Apps, m \in Modes, n \in CompanyNames, b \in BOOLEAN}
          /\ csvFile \in Files(ui.mode)
       \/ /\ ui \in {Form(a, m, n, FALSE, f, o) :
                       a \in Apps, m \in Modes, n \in CompanyNames,
                       f \in BOOLEAN, o \in BOOLEAN}
          /\ ~(ui.csv_isfile /\ ui.out_ok)
          /\ csvFile = EmptyFile
    /\ date_str = Unset
    /\ date_res = Unset
    /\ date_res2 = Unset
    /\ betrag_str = Unset
    /\ betrag_val = Unset
    /\ betrag_res = Unset

-----------------------------------------------------------------------------
(* The handlers *)

company_name == Strip(ui.company_name_var)

Lastschrift == ui.mode = "lastschrift"

Finish(msgs) ==
    /\ log' = log \o msgs
    /\ pc' = "done"

\* SepaApp.start_processing up to the call of the converter
SepaApp_start_processing ==
    /\ pc = "idle"
    /\ ui.app = "sepa_gui"
    /\ IF ~ui.csv_isfile THEN Finish(<<"ERROR: Invalid CSV file path.">>)
       ELSE IF ~ui.out_ok THEN Finish(<<"ERROR: Invalid output directory.">>)
       ELSE pc' = "read" /\ log' = log
    /\ UNCHANGED <<ui, csvFile, outFile, rows, doc, idx, total_count, total_amount,
                   uuid, date_str, date_res, date_res2,
                   betrag_str, betrag_val, betrag_res>>

\* SepaTool.start_processing up to the try block
SepaTool_start_processing ==
    /\ pc = "idle"
    /\ ui.app = "sepatool"
    /\ IF ~ui.csv_isfile THEN Finish(<<"ERROR: Invalid CSV file path.">>)
       ELSE IF ~ui.out_ok THEN Finish(<<"ERROR: No output file specified.">>)
       ELSE IF ~Truthy(company_name) THEN Finish(<<"ERROR: Company Name cannot be empty.">>)
       ELSE pc' = "read" /\ log' = log
    /\ UNCHANGED <<ui, csvFile, outFile, rows, doc, idx, total_count, total_amount,
                   uuid, date_str, date_res, date_res2,
                   betrag_str, betrag_val, betrag_res>>

\* the message of the handler for no data rows: the converter raises
\* ValueError, which SepaApp logs; SepaTool logs and returns
EmptyMessage ==
    IF ui.app = "sepatool" THEN "ERROR: CSV is empty."
    ELSE IF Lastschrift THEN "ERROR: CSV contains no data"
    ELSE "ERROR: CSV contains no data for Ueberweisung."

\* rows = read_csv(...) and the test "if not rows"
ReadRows ==
    /\ pc = "read"
    /\ rows' = read_csv(csvFile)
    /\ IF Len(rows') = 0 THEN Finish(<<EmptyMessage>>)
       ELSE pc' = "header" /\ log' = log
    /\ UNCHANGED <<ui, csvFile, outFile, doc, idx, total_count, total_amount,
                   uuid, date_str, date_res, date_res2,
                   betrag_str, betrag_val, betrag_res>>

GrpHdrOf ==
    CASE ui.app = "sepa_gui" /\ Lastschrift -> pain008_GrpHdr(company_name, ui.batch_var, uuid)
      [] ui.app = "sepa_gui" /\ ~Lastschrift -> pain001_GrpHdr(company_name, ui.batch_var, uuid)
      [] ui.app = "sepatool" /\ Lastschrift ->
            SepaTool_pain008_GrpHdr(company_name, ui.batch_var, uuid)
      [] ui.app = "sepatool" /\ ~Lastschrift ->
            SepaTool_pain001_GrpHdr(company_name, ui.batch_var, uuid)

PmtInfOf ==
    CASE ui.app = "sepa_gui" /\ Lastschrift ->
            pain008_PmtInf(rows, company_name, ui.seqtype_var, uuid)
      [] ui.app = "sepa_gui" /\ ~Lastschrift -> pain001_PmtInf(rows, company_name, uuid)
      [] ui.app = "sepatool" /\ Lastschrift ->
            SepaTool_pain008_PmtInf(rows, company_name, ui.seqtype_var, uuid)
      [] ui.app = "sepatool" /\ ~Lastschrift ->
            SepaTool_pain001_PmtInf(rows, company_name, uuid)

TxOf(row) ==
    CASE ui.app = "sepa_gui" /\ Lastschrift -> pain008_Tx(row, uuid)
      [] ui.app = "sepa_gui" /\ ~Lastschrift -> pain001_Tx(row, uuid)
      [] ui.app = "sepatool" /\ Lastschrift -> SepaTool_pain008_Tx(row, uuid)
      [] ui.app = "sepatool" /\ ~Lastschrift -> SepaTool_pain001_Tx(row, uuid)

StampOf ==
    CASE ui.app = "sepa_gui" /\ Lastschrift -> pain008_Stamp(doc, total_count, total_amount)
      [] ui.app = "sepa_gui" /\ ~Lastschrift -> pain001_Stamp(doc, total_count, total_amount)
      [] ui.app = "sepatool" /\ Lastschrift ->
            SepaTool_pain008_Stamp(doc, total_count, total_amount)
      [] ui.app = "sepatool" /\ ~Lastschrift ->
            SepaTool_pain001_Stamp(doc, total_count, total_amount)

\* the root, <GrpHdr> and <PmtInf> before the loop
BuildHeader ==
    /\ pc = "header"
    /\ doc' = [ns |-> IF Lastschrift THEN "pain.008.003.02" ELSE "pain.001.003.03",
               initn |-> IF Lastschrift THEN "CstmrDrctDbtInitn" ELSE "CstmrCdtTrfInitn",
               GrpHdr |-> GrpHdrOf,
               PmtInf |-> PmtInfOf]
    /\ uuid' = uuid + 2
    /\ total_count' = 0
    /\ total_amount' = Zero
    /\ idx' = 1
    /\ pc' = "loop"
    /\ UNCHANGED <<ui, csvFile, outFile, rows, log, date_str, date_res, date_res2,
                   betrag_str, betrag_val, betrag_res>>

\* the loop putting each transaction before the ones built so far
BuildTx_Prepend ==
    /\ pc = "loop"
    /\ idx <= Len(rows)
    /\ IF Get(rows[idx], "Betrag", <<"0">>) = None
       THEN /\ Finish(<<"ERROR: 'NoneType' object has no attribute 'replace'">>)
            /\ UNCHANGED <<doc, uuid, total_count, total_amount, idx>>
       ELSE /\ doc' = [doc EXCEPT !.PmtInf =
                         SubSeq(@, 1, Len(@) - (idx - 1)) \o <<TxOf(rows[idx])>>
                           \o SubSeq(@, Len(@) - (idx - 1) + 1, Len(@))]
            /\ uuid' = uuid + 1
            /\ total_count' = total_count + 1
            /\ total_amount' =
                 FAdd(total_amount, parse_amount(Replace(Get(rows[idx], "Betrag", <<"0">>), ",", ".")))
            /\ idx' = idx + 1
            /\ UNCHANGED <<pc, log>>
    /\ UNCHANGED <<ui, csvFile, outFile, rows, date_str, date_res, date_res2,
                   betrag_str, betrag_val, betrag_res>>

\* one pass of "for row in rows"; row.get('Betrag', '0') is None for a line
\* that ends before the amount, and None has no replace()
BuildTx ==
    /\ pc = "loop"
    /\ idx <= Len(rows)
    /\ IF Get(rows[idx], "Betrag", <<"0">>) = None
       THEN /\ Finish(<<"ERROR: 'NoneType' object has no attribute 'replace'">>)
            /\ UNCHANGED <<doc, uuid, total_count, total_amount, idx>>
       ELSE /\ doc' = [doc EXCEPT !.PmtInf = Append(@, TxOf(rows[idx]))]
            /\ uuid' = uuid + 1
            /\ total_count' = total_count + 1
            /\ total_amount' =
                 FAdd(total_amount, parse_amount(Replace(Get(rows[idx], "Betrag", <<"0">>), ",", ".")))
            /\ idx' = idx + 1
            /\ UNCHANGED <<pc, log>>
    /\ UNCHANGED <<ui, csvFile, outFile, rows, date_str, date_res, date_res2,
                   betrag_str, betrag_val, betrag_res>>

\* after the loop: the four counter texts
Stamp ==
    /\ pc = "loop"
    /\ idx > Len(rows)
    /\ doc' = StampOf
    /\ pc' = "write"
    /\ UNCHANGED <<ui, csvFile, outFile, rows, idx, total_count, total_amount, log,
                   uuid, date_str, date_res, date_res2,
                   betrag_str, betrag_val, betrag_res>>

\* tree.write(output_xml, ...) opens the output path for writing, which
\* empties the file, or fails and leaves it as it was
WriteOpen ==
    /\ pc = "write"
    /\ \/ /\ outFile' = Partial
          /\ pc' = "writing"
          /\ log' = log
       \/ /\ Finish(<<"ERROR: cannot open the output file">>)
          /\ outFile' = outFile
    /\ UNCHANGED <<ui, csvFile, rows, doc, idx, total_count, total_amount,
                   uuid, date_str, date_res, date_res2,
                   betrag_str, betrag_val, betrag_res>>

\* SepaTool.display_table slices name, IBAN and purpose of every row
TableFails ==
    \E k \in DOMAIN rows :
        \/ Get(rows[k], IF Lastschrift THEN "Zahlungspflichtiger-Name" ELSE "Empfaenger-Name",
               <<>>) = None
        \/ Get(rows[k], IF Lastschrift THEN "Zahlungspflichtiger-IBAN" ELSE "Empfaenger-IBAN",
               <<>>) = None
        \/ Get(rows[k], "Betrag", <<"0">>) = None
        \/ Get(rows[k], "Verwendungszweck", <<>>) = None

Created == IF Lastschrift THEN "Created pain.008 (Lastschrift)" ELSE "Created pain.001 (Ueberweisung)"

\* what the handler logs once the converter has returned
AfterWrite ==
    IF ui.app = "sepatool" /\ TableFails
    THEN <<Created, "ERROR: 'NoneType' object is not subscriptable">>
    ELSE <<Created, "Success">>

\* the rest of tree.write: the serialized tree goes to the file, unless the
\* write fails on the way (disk full, I/O error)
WriteBody ==
    /\ pc = "writing"
    /\ \/ /\ outFile' = Written(doc)
          /\ Finish(AfterWrite)
       \/ /\ outFile' = Partial
          /\ Finish(<<"ERROR: cannot write the output file">>)
    /\ UNCHANGED <<ui, csvFile, rows, doc, idx, total_count, total_amount,
                   uuid, date_str, date_res, date_res2,
                   betrag_str, betrag_val, betrag_res>>

Next ==
    \/ SepaApp_start_processing
    \/ SepaTool_start_processing
    \/ ReadRows
    \/ BuildHeader
    \/ BuildTx
    \/ Stamp
    \/ WriteOpen
    \/ WriteBody

Spec == Init /\ [][Next]_vars

-----------------------------------------------------------------------------
(* convert_date on its own: the argument is drawn, the function is applied *)
(* to it and then to its own result                                        *)

DateAlphabet == {"1", "2", ".", "/", "-", "x"}

DateInputs ==
    UNION {[1..n -> DateAlphabet] : n \in 0..MaxDateLen}
    \cup {None, <<"3", "1", ".", "0", "1", ".", "2", "0", "2", "5">>,
          <<"2", "0", "2", "5", "-", "0", "1", "-", "3", "1">>, DefaultDate,
          <<"1", ".", "-", "2", ".", "1">>}

DateOf(s) == IF ui.app = "sepatool" THEN SepaTool_convert_date(s) ELSE convert_date(s)

InitDate ==
    /\ Start
    /\ ui \in {Form(a, "lastschrift", <<"A", "c">>, FALSE, TRUE, TRUE) : a \in Apps}
    /\ csvFile = EmptyFile
    /\ outFile = Absent
    /\ date_str \in DateInputs
    /\ date_res = Unset
    /\ date_res2 = Unset
    /\ betrag_str = Unset
    /\ betrag_val = Unset
    /\ betrag_res = Unset

ConvertDate ==
    /\ date_res = Unset
    /\ date_res' = DateOf(date_str)
    /\ UNCHANGED <<ui, csvFile, outFile, pc, rows, doc, idx, total_count, total_amount,
                   log, uuid, date_str, date_res2,
                   betrag_str, betrag_val, betrag_res>>

ConvertAgain ==
    /\ date_res # Unset
    /\ date_res2 = Unset
    /\ date_res2' = DateOf(date_res)
    /\ UNCHANGED <<ui, csvFile, outFile, pc, rows, doc, idx, total_count, total_amount,
                   log, uuid, date_str, date_res,
                   betrag_str, betrag_val, betrag_res>>

NextDate == ConvertDate \/ ConvertAgain

SpecDate == InitDate /\ [][NextDate]_vars

-----------------------------------------------------------------------------
(* The amount of one row on its own: the Betrag text goes through the loop *)
(* body of each of the four builders.                                      *)

AmountAlphabet == {"0", "4", ",", ".", "-", "x"}

AmountInputs ==
    UNION {[1..n -> AmountAlphabet] : n \in 0..MaxAmountLen}
    \cup {<<"1", "2", "3", "4", ",", "5", "6">>, <<" ", "4", ",", "4", " ">>,
          <<"i", "n", "f">>, <<"-", "i", "n", "f">>, <<"n", "a", "n">>,
          <<"I", "n", "f", "i", "n", "i", "t", "y">>}

\* a row that DictReader gives for the header Betrag alone
BetragRow(s) == [c \in {"Betrag"} |-> s]

\* the text of the InstdAmt element of the transaction built for the row
AmountText(row) ==
    LET tx == TxOf(row)
    IN  IF Lastschrift THEN Child(tx.kids, "InstdAmt").text
        ELSE Child(Child(tx.kids, "Amt").kids, "InstdAmt").text

InitAmount ==
    /\ Start
    /\ ui \in {Form(a, m, <<"A", "c">>, FALSE, TRUE, TRUE) : a \in Apps, m \in Modes}
    /\ csvFile = EmptyFile
    /\ outFile = Absent
    /\ date_str = Unset
    /\ date_res = Unset
    /\ date_res2 = Unset
    /\ betrag_str \in AmountInputs
    /\ betrag_val = Unset
    /\ betrag_res = Unset

ParseAmount ==
    /\ betrag_res = Unset
    /\ betrag_val' =
         parse_amount(Replace(Get(BetragRow(betrag_str), "Betrag", <<"0">>), ",", "."))
    /\ betrag_res' = AmountText(BetragRow(betrag_str))
    /\ UNCHANGED <<ui, csvFile, outFile, pc, rows, doc, idx, total_count, total_amount,
                   log, uuid, date_str, date_res, date_res2, betrag_str>>

NextAmount == ParseAmount

SpecAmount == InitAmount /\ [][NextAmount]_vars

-----------------------------------------------------------------------------
(* Reading a document *)

RECURSIVE At(_, _)
\* the element at a path of tags below the given children
At(kids, path) ==
    IF Len(path) = 1 THEN Child(kids, path[1])
    ELSE At(Child(kids, path[1]).kids, Tail(path))

TxTag == IF Lastschrift THEN "DrctDbtTxInf" ELSE "CdtTrfTxInf"

Txs(d) == Children(d.PmtInf, TxTag)

InstdAmtOf(tx) ==
    IF Lastschrift THEN At(tx.kids, <<"InstdAmt">>).text
    ELSE At(tx.kids, <<"Amt", "InstdAmt">>).text

Party == IF Lastschrift THEN "Dbtr" ELSE "Cdtr"
PartyAcct == IF Lastschrift THEN "DbtrAcct" ELSE "CdtrAcct"

NameColumn == IF Lastschrift THEN "Zahlungspflichtiger-Name" ELSE "Empfaenger-Name"
IbanColumn == IF Lastschrift THEN "Zahlungspflichtiger-IBAN" ELSE "Empfaenger-IBAN"

\* the counters are stamped: the converter is at or past its write
Stamped == pc \in {"write", "writing"} \/ outFile.kind = "document"

\* the stamped document: the tree in memory, or the one in the file
TheDoc == IF outFile.kind = "document" THEN outFile.doc ELSE doc

RowAmount(row) == parse_amount(Replace(Get(row, "Betrag", <<"0">>), ",", "."))

RECURSIVE SumAmounts(_, _)
\* the sum of the parsed amounts of the first k rows, in thousandths
SumAmounts(rws, k) ==
    IF k = 0 THEN Zero ELSE FAdd(SumAmounts(rws, k - 1), RowAmount(rws[k]))

\* a text with exactly two decimals
TwoDecimals(t) ==
    /\ Len(t) >= 4
    /\ t[Len(t) - 2] = "."
    /\ t[Len(t) - 1] \in Digits /\ t[Len(t)] \in Digits
    /\ AllDigits(Unsigned(SubSeq(t, 1, Len(t) - 3)))

\* the value of a two-decimal text, in cents
Cents(t) == Signed(FloatVal(t)) \div 10

RECURSIVE SumInstdAmt(_, _)
\* the sum of the first k InstdAmt texts of the document, in cents
SumInstdAmt(txs, k) ==
    IF k = 0 THEN 0 ELSE SumInstdAmt(txs, k - 1) + Cents(InstdAmtOf(txs[k]))

ZeroDataRows == \A k \in DOMAIN csvFile.lines : csvFile.lines[k] = <<>>

BlankCompany == Strip(ui.company_name_var) = <<>>

\* the handler gets as far as reading the file
ReachesRead == ui.csv_isfile /\ ui.out_ok /\ (ui.app = "sepatool" => ~BlankCompany)

EmptyInputMessages ==
    {"ERROR: CSV is empty.", "ERROR: CSV contains no data",
     "ERROR: CSV contains no data for Ueberweisung."}

WriteFailed ==
    log # <<>> /\ log[Len(log)] \in {"ERROR: cannot open the output file",
                                     "ERROR: cannot write the output file"}

-----------------------------------------------------------------------------
(* The claims *)

C2_Idempotent ==
    /\ (date_res # Unset /\ date_str = <<"3", "1", ".", "0", "1", ".", "2", "0", "2", "5">>) => date_res = <<"2", "0", "2", "5", "-", "0", "1", "-", "3", "1">>
    /\ (date_res2 # Unset /\ Truthy(date_str)
          /\ \E k \in DOMAIN Separators : SepMatches(date_str, Separators[k]))
       => date_res2 = date_res

\* C3: with at least one data row, a bad amount or date in a row (text that
\* is no number, an empty value, a value the line does not reach) never
\* aborts the run: unless the write itself fails, the document is written.
C3_BadFieldNeverAborts ==
    (pc = "done" /\ Len(rows) > 0 /\ ~WriteFailed) => outFile.kind = "document"

\* C4: a file with no data rows ends the run with the empty-input error, in
\* both modes, and the output file is never created or changed.
C4_EmptyInput ==
    /\ []((ZeroDataRows /\ ReachesRead /\ pc = "done")
            => (Len(log) = 1 /\ log[1] \in EmptyInputMessages))
    /\ [][ZeroDataRows => outFile' = outFile]_vars

\* a header-only file, credit transfer, through sepa_converter: the error is
\* logged and the old output file is still there
C4_Witness ==
    /\ pc = "done"
    /\ csvFile.header # <<>>
    /\ ZeroDataRows
    /\ log = <<"ERROR: CSV contains no data for Ueberweisung.">>
    /\ outFile = Old

\* C5: with a blank company name the run ends with the missing-setting
\* error and nothing is written, on both entry paths.
C5_BlankCompanyAborts ==
    BlankCompany =>
        /\ outFile.kind \in {"absent", "old"}
        /\ (pc = "done" /\ ui.csv_isfile /\ ui.out_ok)
             => log = <<"ERROR: Company Name cannot be empty.">>

\* C6: when a run has ended, the output file is either untouched or holds
\* the complete document, and the file is touched only after all
\* transactions are built and the counters stamped.
C6_AllOrNothing ==
    /\ pc = "done" => outFile.kind \in {"absent", "old", "document"}
    /\ outFile.kind \in {"partial", "document"} =>
          /\ idx = Len(rows) + 1
          /\ Len(Txs(doc)) = Len(rows)
          /\ Child(doc.GrpHdr, "CtrlSum").text # None
          /\ Child(doc.PmtInf, "CtrlSum").text # None

\* C7: the stamped CtrlSum is the sum of the InstdAmt values of the
\* transactions in the document.
C7_CtrlSumIsSumOfInstdAmt ==
    Stamped =>
        Cents(Child(TheDoc.GrpHdr, "CtrlSum").text)
            = SumInstdAmt(Txs(TheDoc), Len(Txs(TheDoc)))

\* C8: the document has one transaction element per row, after the other
\* children of PmtInf, and the i-th carries name, IBAN, amount and
\* remittance text of the i-th row.
C8_OneTxPerRowInOrder ==
    Stamped =>
        LET p == TheDoc.PmtInf
            txs == Txs(TheDoc)
            first == Len(p) - Len(rows)
        IN  /\ Len(txs) = Len(rows)
            /\ \A i \in 1..Len(rows) :
                 /\ p[first + i] = txs[i]
                 /\ At(txs[i].kids, <<Party, "Nm">>).text
                      = Get(rows[i], NameColumn, <<>>)
                 /\ At(txs[i].kids, <<PartyAcct, "Id", "IBAN">>).text
                      = Get(rows[i], IbanColumn, <<>>)
                 /\ InstdAmtOf(txs[i]) = Format2f(RowAmount(rows[i]))
                 /\ At(txs[i].kids, <<"RmtInf", "Ustrd">>).text
                      = Get(rows[i], "Verwendungszweck", <<>>)

\* Bob's row before Alice's row, written as a direct debit
C8_Witness ==
    /\ outFile.kind = "document"
    /\ Lastschrift
    /\ Len(Txs(outFile.doc)) = 2
    /\ At(Txs(outFile.doc)[1].kids, <<"Dbtr", "Nm">>).text = <<"Bob">>
    /\ At(Txs(outFile.doc)[2].kids, <<"Dbtr", "Nm">>).text = <<"Alice">>
    /\ InstdAmtOf(Txs(outFile.doc)[2]) = <<"1", "0", ".", "0", "0">>

\* the field is in the row and holds a non-empty text
Present(row, col) == col \in DOMAIN row /\ row[col] # None /\ row[col] # <<>>

\* the BIC children of a FinInstnId are exactly the one of the field, or none
BicIs(fin, row, col) ==
    fin.kids = IF Present(row, col) THEN <<Leaf("BIC", row[col])>> ELSE <<>>

\* C9: in a credit transfer, DbtrAgt/FinInstnId of PmtInf has a BIC exactly
\* when the first row's Auftraggeber-BIC is present and non-empty, and each
\* CdtrAgt/FinInstnId exactly when that row's Empfaenger-BIC is.
C9_BicOnlyIfPresent ==
    (Stamped /\ ~Lastschrift) =>
        /\ BicIs(At(TheDoc.PmtInf, <<"DbtrAgt", "FinInstnId">>), rows[1], "Auftraggeber-BIC")
        /\ \A i \in 1..Len(rows) :
             BicIs(At(Txs(TheDoc)[i].kids, <<"CdtrAgt", "FinInstnId">>), rows[i], "Empfaenger-BIC")

\* a row with a BIC after a row whose BIC fields are empty
C9_Witness ==
    /\ outFile.kind = "document"
    /\ ~Lastschrift
    /\ Len(rows) = 2
    /\ Present(rows[2], "Empfaenger-BIC")
    /\ "Empfaenger-BIC" \in DOMAIN rows[1] /\ rows[1]["Empfaenger-BIC"] = <<>>
    /\ At(Txs(outFile.doc)[1].kids, <<"CdtrAgt", "FinInstnId">>).kids = <<>>
    /\ At(Txs(outFile.doc)[2].kids, <<"CdtrAgt", "FinInstnId">>).kids # <<>>
    /\ At(outFile.doc.PmtInf, <<"DbtrAgt", "FinInstnId">>).kids = <<>>

\* no separator gives exactly three parts that are all integers
NoThreeIntegerParts(s) ==
    \A sep \in {".", "/", "-"} :
        LET parts == Split(s, sep)
        IN  ~(Len(parts) = 3 /\ \A k \in 1..3 : IsInt(parts[k]))

\* C10: convert_date returns a date unchanged when no separator among . / -
\* gives exactly three integer parts, and the fixed default date for the
\* empty string and for None.
C10_UnparseableUnchanged ==
    date_res # Unset =>
        IF date_str = None \/ date_str = <<>> THEN date_res = <<"2", "0", "2", "5", "-", "0", "1", "-", "0", "1">>
        ELSE NoThreeIntegerParts(date_str) => date_res = date_str

\* three parts at the point, the middle one no integer
C10_Witness ==
    /\ date_str = <<"1", ".", "x", ".", "2">>
    /\ date_res = <<"1", ".", "x", ".", "2">>

\* C11: the amount of a row is its Betrag text with every comma replaced by
\* a dot, read as a number ("1234,56" is 1234.56); a text that is no number
\* gives 0.00; the InstdAmt text written has exactly two decimals.
C11_AmountTwoDecimals ==
    betrag_res # Unset =>
        LET dotted == Replace(betrag_str, ",", ".")
        IN  /\ IsFloat(dotted) => betrag_val = FloatVal(dotted)
            /\ betrag_str = <<"1", "2", "3", "4", ",", "5", "6">>
                  => /\ betrag_val = Fin(FALSE, 1234560)
                     /\ betrag_res = <<"1", "2", "3", "4", ".", "5", "6">>
            /\ ~IsFloat(dotted)
                  => /\ betrag_val = Zero
                     /\ betrag_res = <<"0", ".", "0", "0">>
            /\ TwoDecimals(betrag_res)

\* the identifiers of a document: MsgId, PmtInfId, then each EndToEndId
IdsOf(d) ==
    <<Child(d.GrpHdr, "MsgId").text, Child(d.PmtInf, "PmtInfId").text>>
    \o [i \in 1..Len(Txs(d)) |-> At(Txs(d)[i].kids, <<"PmtId", "EndToEndId">>).text]

\* C12: in a generated document the MsgId, the PmtInfId and all EndToEndId
\* values are pairwise distinct, and each is a generated token behind its
\* role prefix MSG-, PMT- or E2E-.
C12_IdsDistinct ==
    Stamped =>
        LET ids == IdsOf(TheDoc)
        IN  /\ Len(ids) = Len(rows) + 2
            /\ \A i, j \in DOMAIN ids : i # j => ids[i] # ids[j]
            /\ \A i \in DOMAIN ids :
                 /\ ids[i][1] = (IF i = 1 THEN "MSG-" ELSE IF i = 2 THEN "PMT-" ELSE "E2E-")
                 /\ ids[i][2] = "uuid4"

C12_Witness ==
    /\ outFile.kind = "document"
    /\ Len(IdsOf(outFile.doc)) = 4
    /\ IdsOf(outFile.doc)[3][1] = "E2E-"
    /\ IdsOf(outFile.doc)[3] # IdsOf(outFile.doc)[4]

\* C13: the children of GrpHdr are, in this order, MsgId, CreDtTm, NbOfTxs,
\* CtrlSum, Grpg, BtchBookg when batch booking is set, InitgPty.
C13_GrpHdrOrder ==
    Stamped =>
        Tags(TheDoc.GrpHdr) =
            <<"MsgId", "CreDtTm", "NbOfTxs", "CtrlSum", "Grpg">>
            \o (IF ui.batch_var THEN <<"BtchBookg">> ELSE <<>>)
            \o <<"InitgPty">>

RECURSIVE CountTag(_, _)
\* the number of elements of the given tag in the trees kids, at any depth
CountTag(kids, tag) ==
    IF kids = <<>> THEN 0
    ELSE (IF Head(kids).tag = tag THEN 1 ELSE 0)
         + CountTag(Head(kids).kids, tag) + CountTag(Tail(kids), tag)

\* C14: GrpHdr has a BtchBookg child with text "true" exactly when the
\* batch-booking flag is set; the document holds at most one BtchBookg
\* element and PmtInf holds none, at any depth.
C14_BtchBookgIffFlag ==
    Stamped =>
        /\ (\E k \in DOMAIN TheDoc.GrpHdr :
               TheDoc.GrpHdr[k] = Leaf("BtchBookg", <<"true">>)) <=> ui.batch_var
        /\ CountTag(TheDoc.GrpHdr, "BtchBookg") + CountTag(TheDoc.PmtInf, "BtchBookg") <= 1
        /\ CountTag(TheDoc.PmtInf, "BtchBookg") = 0

C14_Witness ==
    /\ outFile.kind = "document"
    /\ ui.batch_var
    /\ Len(rows) = 2
    /\ CountTag(outFile.doc.GrpHdr, "BtchBookg") = 1

\* C15: every transaction of a generated document has a non-negative amount
\* with two decimals: no InstdAmt text is negative, whatever the rows.
C15_NoNegativeInstdAmt ==
    Stamped =>
        \A i \in DOMAIN Txs(TheDoc) :
            /\ TwoDecimals(InstdAmtOf(Txs(TheDoc)[i]))
            /\ Head(InstdAmtOf(Txs(TheDoc)[i])) # "-"

DateColumn == IF Lastschrift THEN "Faelligkeitsdatum" ELSE "Durchfuehrungsdatum"
DateTag == IF Lastschrift THEN "ReqdColltnDt" ELSE "ReqdExctnDt"

\* C16: when the first row has no due-date / execution-date value (the
\* field is absent from the row or empty), the block-level ReqdColltnDt /
\* ReqdExctnDt is the default date, which is what convert_date gives for
\* empty input; likewise DtOfSgntr for a row without a mandate signature
\* date.
C16_DefaultDateWhenMissing ==
    Stamped =>
        /\ DateOf(<<>>) = DefaultDate
        /\ ~Present(rows[1], DateColumn)
              => Child(TheDoc.PmtInf, DateTag).text = DefaultDate
        /\ Lastschrift =>
              \A i \in DOMAIN Txs(TheDoc) :
                  ~Present(rows[i], "Mandatsaustellungsdatum")
                     => At(Txs(TheDoc)[i].kids,
                           <<"DrctDbtTx", "MndtRltdInf", "DtOfSgntr">>).text = DefaultDate

OwnAcct == IF Lastschrift THEN "CdtrAcct" ELSE "DbtrAcct"
OwnAgt == IF Lastschrift THEN "CdtrAgt" ELSE "DbtrAgt"

\* the block-level fields of <PmtInf> that are read from a row
BlockFields(p) ==
    [date |-> Child(p, DateTag).text,
     iban |-> At(p, <<OwnAcct, "Id", "IBAN">>).text,
     scheme |-> IF Lastschrift
                THEN At(p, <<"CdtrSchmeId", "Id", "PrvtId", "Othr", "Id">>).text
                ELSE None,
     bic |-> At(p, <<OwnAgt, "FinInstnId">>).kids]

\* <PmtInf> as the running builder makes it for the rows rws
PmtInfFor(rws) ==
    CASE ui.app = "sepa_gui" /\ Lastschrift ->
            pain008_PmtInf(rws, company_name, ui.seqtype_var, 0)
      [] ui.app = "sepa_gui" /\ ~Lastschrift -> pain001_PmtInf(rws, company_name, 0)
      [] ui.app = "sepatool" /\ Lastschrift ->
            SepaTool_pain008_PmtInf(rws, company_name, ui.seqtype_var, 0)
      [] ui.app = "sepatool" /\ ~Lastschrift ->
            SepaTool_pain001_PmtInf(rws, company_name, 0)

\* C17: the block-level fields depend only on the first row and the
\* settings: the document of any rows has the ReqdColltnDt / ReqdExctnDt,
\* account IBAN, creditor-scheme id and payment-level BIC of the document of
\* its first row alone under the same settings (so two row sequences with
\* the same first row agree on them), and it has one PmtInf.
C17_BlockFromFirstRow ==
    Stamped =>
        /\ BlockFields(TheDoc.PmtInf) = BlockFields(PmtInfFor(<<rows[1]>>))
        /\ CountTag(TheDoc.PmtInf, "PmtInfId") = 1
        /\ CountTag(TheDoc.GrpHdr \o TheDoc.PmtInf, "PmtInf") = 0

C17_Witness ==
    /\ outFile.kind = "document"
    /\ Lastschrift
    /\ Len(rows) = 2
    /\ Present(rows[1], "Faelligkeitsdatum") /\ Present(rows[2], "Faelligkeitsdatum")
    /\ rows[1]["Faelligkeitsdatum"] # rows[2]["Faelligkeitsdatum"]
    /\ rows[1]["Auftraggeber-IBAN"] # rows[2]["Auftraggeber-IBAN"]
    /\ BlockFields(outFile.doc.PmtInf).date = convert_date(rows[1]["Faelligkeitsdatum"])
    /\ BlockFields(outFile.doc.PmtInf).date # convert_date(rows[2]["Faelligkeitsdatum"])
    /\ BlockFields(outFile.doc.PmtInf).iban = rows[1]["Auftraggeber-IBAN"]

\* the split of s at sep gives exactly three parts, all of them integers
Qualifies(s, sep) ==
    /\ Len(Split(s, sep)) = 3
    /\ \A p \in 1..3 : IsInt(Split(s, sep)[p])

\* year-month-day, zero-padded, from the day, month, year parts of s at sep
PaddedForm(s, sep) ==
    ZeroPad(IntVal(Split(s, sep)[3]), 4) \o <<"-">>
    \o ZeroPad(IntVal(Split(s, sep)[2]), 2) \o <<"-">>
    \o ZeroPad(IntVal(Split(s, sep)[1]), 2)

FixedOrder == <<".", "/", "-">>

\* C18: convert_date tries the separators in the order '.', '/', '-': the
\* result is the zero-padded form built from the first separator in that
\* order whose split gives three integer parts; a separator whose three
\* parts are not all integers is passed over and the later ones still
\* decide.
C18_FirstQualifyingSeparator ==
    (date_res # Unset /\ Truthy(date_str)) =>
        \A k \in 1..3 :
            (/\ Qualifies(date_str, FixedOrder[k])
             /\ \A j \in 1..(k - 1) : ~Qualifies(date_str, FixedOrder[j]))
            => date_res = PaddedForm(date_str, FixedOrder[k])

\* a string with two kinds of separator, decided by '.'
C18_Witness ==
    /\ date_str = <<"1", ".", "-", "2", ".", "1">>
    /\ date_res = <<"0", "0", "0", "1", "-", "-", "2", "-", "0", "1">>

\* the generated identifiers and the creation timestamp
Generated == {"MsgId", "PmtInfId", "EndToEndId", "CreDtTm"}

RECURSIVE Mask(_)
\* the trees kids with the generated texts blanked, at any depth
Mask(kids) ==
    [k \in DOMAIN kids |->
        IF kids[k].tag \in Generated THEN [kids[k] EXCEPT !.text = <<"*">>]
        ELSE [kids[k] EXCEPT !.kids = Mask(@)]]

MaskDoc(d) == [d EXCEPT !.GrpHdr = Mask(@), !.PmtInf = Mask(@)]

\* the document sepa_converter.generate_pain008 / generate_pain001 builds
\* for the rows and settings of the run
ConverterDoc ==
    IF Lastschrift
    THEN pain008_Stamp(
             [ns |-> "pain.008.003.02", initn |-> "CstmrDrctDbtInitn",
              GrpHdr |-> pain008_GrpHdr(company_name, ui.batch_var, 0),
              PmtInf |-> pain008_PmtInf(rows, company_name, ui.seqtype_var, 0)
                         \o [i \in 1..Len(rows) |-> pain008_Tx(rows[i], i + 1)]],
             Len(rows), SumAmounts(rows, Len(rows)))
    ELSE pain001_Stamp(
             [ns |-> "pain.001.003.03", initn |-> "CstmrCdtTrfInitn",
              GrpHdr |-> pain001_GrpHdr(company_name, ui.batch_var, 0),
              PmtInf |-> pain001_PmtInf(rows, company_name, 0)
                         \o [i \in 1..Len(rows) |-> pain001_Tx(rows[i], i + 1)]],
             Len(rows), SumAmounts(rows, Len(rows)))

\* the document SepaTool.generate_pain008 / generate_pain001 builds for them
SepaToolDoc ==
    IF Lastschrift
    THEN SepaTool_pain008_Stamp(
             [ns |-> "pain.008.003.02", initn |-> "CstmrDrctDbtInitn",
              GrpHdr |-> SepaTool_pain008_GrpHdr(company_name, ui.batch_var, 0),
              PmtInf |-> SepaTool_pain008_PmtInf(rows, company_name, ui.seqtype_var, 0)
                         \o [i \in 1..Len(rows) |-> SepaTool_pain008_Tx(rows[i], i + 1)]],
             Len(rows), SumAmounts(rows, Len(rows)))
    ELSE SepaTool_pain001_Stamp(
             [ns |-> "pain.001.003.03", initn |-> "CstmrCdtTrfInitn",
              GrpHdr |-> SepaTool_pain001_GrpHdr(company_name, ui.batch_var, 0),
              PmtInf |-> SepaTool_pain001_PmtInf(rows, company_name, 0)
                         \o [i \in 1..Len(rows) |-> SepaTool_pain001_Tx(rows[i], i + 1)]],
             Len(rows), SumAmounts(rows, Len(rows)))

\* C19: the two copies of the builders agree: the document either program
\* writes for a non-empty row sequence has the element structure, order and
\* text of the document the other copy builds for the same rows and
\* settings, apart from the generated identifiers and the timestamp.
C19_CopiesAgree ==
    outFile.kind = "document" =>
        MaskDoc(outFile.doc) =
            MaskDoc(IF ui.app = "sepatool" THEN ConverterDoc ELSE SepaToolDoc)

C19_Witness ==
    /\ outFile.kind = "document"
    /\ ui.app = "sepatool"
    /\ Lastschrift
    /\ Len(rows) = 2
    /\ Present(rows[2], "Mandatsaustellungsdatum")
    /\ MaskDoc(outFile.doc) = MaskDoc(ConverterDoc)
    /\ At(Txs(outFile.doc)[2].kids, <<"DrctDbtTx", "MndtRltdInf", "DtOfSgntr">>).text
         = <<"2", "0", "2", "4", "-", "0", "2", "-", "0", "1">>

=============================================================================
